---- MODULE Spec2Model ----
(***************************************************************************)
(* Reconciliation engine of the cost sheet generator (src/app.py):         *)
(* registry rows and ledger rows of an uploaded workbook are parsed,       *)
(* ledger transactions are matched to sale units by their normalized       *)
(* identifiers, and every unit gets a verification result.                 *)
(*                                                                         *)
(* The model has two levels. At the table level a run starts from the      *)
(* data rows under already mapped headers (registry_rows, ledger_rows); at *)
(* the workbook level it starts from the sheets of the uploaded workbook,  *)
(* which are located, read through their header rows and then verified by  *)
(* the same operators. A session may see several uploaded workbooks, one   *)
(* run after the other, and the Customers tab builds the cost sheet data   *)
(* of selected units from what the last runs stored.                       *)
(*                                                                         *)
(* Text is modelled as a sequence of one-character strings, a cell of the  *)
(* workbook as a tagged record (null, text, number, date), money as an     *)
(* integer number of hundredths of the currency unit, a date as a day      *)
(* number.                                                                 *)
(***************************************************************************)
EXTENDS Integers, Sequences, FiniteSets, TLC

VARIABLES
    registry_rows,          \* data rows of the sales master sheet, header already mapped
    ledger_rows,            \* data rows of one account section of the collection sheet
    workbook,               \* the sheets of the uploaded workbook, in order
    pc,                     \* position of the upload handler
    sheet_names,            \* sales_master_sheet_name and collection_sheet_name
    sales_master_df,        \* st.session_state.sales_master_df
    accounts_info,          \* st.session_state.accounts_info
    collection_df,          \* st.session_state.collection_df
    unit_transactions_map,  \* what match_transactions_to_units returned to verify_transactions
    verification_results,   \* st.session_state.verification_results
    dashboard_data,         \* st.session_state.dashboard_data
    run,                    \* the number of the run over the uploaded file
    previous_results,       \* verification_results as the previous run left them
    preview_data            \* st.session_state.preview_data

vars == <<registry_rows, ledger_rows, workbook, pc, sheet_names, sales_master_df,
          accounts_info, collection_df, unit_transactions_map,
          verification_results, dashboard_data, run, previous_results,
          preview_data>>

\* what a step of a run leaves alone
history == <<run, previous_results>>

\* the uploaded file
inputs == <<registry_rows, ledger_rows, workbook>>

----------------------------------------------------------------------------
(* Cells and text                                                          *)

Null == [kind |-> "null"]

\* Python's None where a table or a list is expected
None == <<[kind |-> "none"]>>
Text(s) == [kind |-> "text", s |-> s]
Num(n) == [kind |-> "num", n |-> n]
Date(d) == [kind |-> "date", d |-> d]

\* Python truth value of a cell value: None, "" and 0 are false
Truthy(c) ==
    CASE c.kind = "null" -> FALSE
      [] c.kind = "text" -> c.s # <<>>
      [] c.kind = "num"  -> c.n # 0
      [] OTHER           -> TRUE

LowerLetters == <<"a","b","c","d","e","f","g","h","i","j","k","l","m",
                  "n","o","p","q","r","s","t","u","v","w","x","y","z">>
UpperLetters == <<"A","B","C","D","E","F","G","H","I","J","K","L","M",
                  "N","O","P","Q","R","S","T","U","V","W","X","Y","Z">>
Digits == {"0","1","2","3","4","5","6","7","8","9"}

UpperChar(ch) ==
    IF \E i \in 1..26 : LowerLetters[i] = ch
    THEN UpperLetters[CHOOSE i \in 1..26 : LowerLetters[i] = ch]
    ELSE ch

\* str.upper()
Upper(s) == [i \in 1..Len(s) |-> UpperChar(s[i])]

\* str.strip(): leading and trailing blanks removed
Strip(s) ==
    LET nonblank == {i \in 1..Len(s) : s[i] # " "}
    IN  IF nonblank = {} THEN <<>>
        ELSE LET lo == CHOOSE i \in nonblank : \A j \in nonblank : i <= j
                 hi == CHOOSE i \in nonblank : \A j \in nonblank : i >= j
             IN  SubSeq(s, lo, hi)

\* str.replace(" ", "")
RemoveSpaces(s) == SelectSeq(s, LAMBDA ch : ch # " ")

\* str.isdigit(): non-empty and digits only
IsDigit(s) == s # <<>> /\ \A i \in 1..Len(s) : s[i] \in Digits

\* str.startswith(p)
StartsWith(s, p) == Len(s) >= Len(p) /\ SubSeq(s, 1, Len(p)) = p

\* sub in s
Contains(s, sub) ==
    \E i \in 0..(Len(s) - Len(sub)) : SubSeq(s, i + 1, i + Len(sub)) = sub

HasChar(s, ch) == \E i \in 1..Len(s) : s[i] = ch

\* s.split("-")[-1]
AfterLastHyphen(s) ==
    LET hy == {i \in 1..Len(s) : s[i] = "-"}
    IN  IF hy = {} THEN s
        ELSE LET last == CHOOSE i \in hy : \A j \in hy : i >= j
             IN  SubSeq(s, last + 1, Len(s))

\* str(value) of a cell value that is text or a whole number
RECURSIVE DigitsOf(_)
DigitsOf(n) ==
    LET d == <<"0","1","2","3","4","5","6","7","8","9">>
    IN  IF n < 10 THEN <<d[n + 1]>> ELSE DigitsOf(n \div 10) \o <<d[(n % 10) + 1]>>

Str(c) ==
    IF c.kind = "text" THEN c.s
    ELSE IF c.n < 0 THEN <<"-">> \o DigitsOf(0 - c.n) ELSE DigitsOf(c.n)

----------------------------------------------------------------------------
(* Identifier Normalizer                                                   *)

\* the hyphen insertion of normalize_unit_number, on the cleaned string
InsertHyphen(unit_str) ==
    IF ~HasChar(unit_str, "-") /\ Len(unit_str) >= 5
          /\ StartsWith(unit_str, <<"C","A">>)
          /\ IsDigit(SubSeq(unit_str, 3, Len(unit_str)))
    THEN IF Len(unit_str) >= 7
         THEN SubSeq(unit_str, 1, 4) \o <<"-">> \o SubSeq(unit_str, 5, Len(unit_str))
         ELSE SubSeq(unit_str, 1, 3) \o <<"-">> \o SubSeq(unit_str, 4, Len(unit_str))
    ELSE unit_str

\* a variant that upper-cases after the hyphen insertion
normalize_upper_last(unit_number) ==
    IF ~Truthy(unit_number) THEN <<>>
    ELSE Upper(InsertHyphen(RemoveSpaces(Strip(Str(unit_number)))))

\* normalize_unit_number on a cell value; the result is text
normalize_unit_number(unit_number) ==
    IF ~Truthy(unit_number) THEN <<>>
    ELSE InsertHyphen(RemoveSpaces(Upper(Strip(Str(unit_number)))))

----------------------------------------------------------------------------
(* Registry Extractor: the data rows of parse_sales_master                 *)
(* A registry row carries the cells under the mapped headers               *)
(* 'Unit Number', 'Name of Customer' and 'Amount received (Inc Taxes)'.    *)

\* "Only add rows with unit number or customer name"
KeepRegistryRow(row) == Truthy(row.unit) \/ Truthy(row.name)

parse_sales_master(rows) ==
    LET kept == SelectSeq(rows, KeepRegistryRow)
    IN  [i \in 1..Len(kept) |->
            [unit       |-> kept[i].unit,
             name       |-> kept[i].name,
             expected   |-> kept[i].expected,
             normalized |-> normalize_unit_number(kept[i].unit)]]

----------------------------------------------------------------------------
(* Transaction Extractor: the rows of one account section                  *)
(* A ledger row carries the cells under the headers mapped to date,        *)
(* amount, type (Dr/Cr) and sales_tag.                                     *)

\* len(re.findall(r'\d+', s)): the number of runs of digits
NumberCount(s) ==
    Cardinality({i \in 1..Len(s) : s[i] \in Digits /\ (i = 1 \/ s[i - 1] \notin Digits)})

\* extract_excel_date on a number (a spreadsheet serial, converted when positive
\* and returned unchanged otherwise), on a datetime cell value (returned
\* unchanged), on None, and on a text of words that are no date words with
\* fewer than three numbers: pd.to_datetime gives NaT, every strptime format
\* fails, the date pattern needs three numbers and the fallback too, so the
\* result is None. Texts that hold a date are not drawn by the workbooks below.
extract_excel_date(c) ==
    CASE c.kind = "num" /\ c.n > 0 -> Date(c.n)
      [] c.kind = "num"            -> c
      [] c.kind = "date"           -> c
      [] c.kind = "null"           -> Null
      [] c.kind = "text" /\ NumberCount(c.s) < 3 -> Null

\* the row test of parse_collection_transactions
KeepLedgerRow(row) ==
    /\ Truthy(row.date)
    /\ row.amount.kind # "null"
    /\ row.amount.kind = "num" /\ row.amount.n # 0

\* the transaction dictionary built from a kept row; a key that the code
\* leaves out is Null here, as it is NaN in the DataFrame
TransactionOf(row, r_idx) ==
    [row      |-> r_idx,
     date     |-> extract_excel_date(row.date),
     amount   |-> row.amount.n,
     type     |-> IF row.type.kind # "null" THEN Text(Str(row.type)) ELSE Null,
     sales_tag |-> IF row.sales_tag.kind # "null" THEN Text(Str(row.sales_tag)) ELSE Null,
     normalized_sales_tag |->
        IF row.sales_tag.kind # "null" /\ Truthy(Text(Str(row.sales_tag)))
        THEN Text(normalize_unit_number(Text(Str(row.sales_tag))))
        ELSE Null]

RECURSIVE TransactionsFrom(_, _)
TransactionsFrom(rows, r_idx) ==
    IF r_idx > Len(rows) THEN <<>>
    ELSE (IF KeepLedgerRow(rows[r_idx])
          THEN <<TransactionOf(rows[r_idx], r_idx)>> ELSE <<>>)
         \o TransactionsFrom(rows, r_idx + 1)

parse_collection_transactions(rows) == TransactionsFrom(rows, 1)

\* whether the DataFrame built from the dictionaries has the column
HasColumn(df, field) == \E i \in 1..Len(df) : df[i][field] # Null

----------------------------------------------------------------------------
(* Matcher                                                                 *)

\* collection_df['normalized_sales_tag'], computed when the column is missing
WithNormalizedTags(df) ==
    IF HasColumn(df, "normalized_sales_tag") THEN df
    ELSE [i \in 1..Len(df) |->
            [df[i] EXCEPT !.normalized_sales_tag =
                Text(IF df[i].sales_tag = Null THEN <<"N","A","N">>
                     ELSE normalize_unit_number(df[i].sales_tag))]]

\* collection_df['normalized_sales_tag'].str.contains(sub, regex=False, na=False)
TagContains(t, sub) ==
    t.normalized_sales_tag # Null /\ Contains(t.normalized_sales_tag.s, sub)

TagIn(t, matches) ==
    \E i \in 1..Len(matches) :
        matches[i].normalized_sales_tag = t.normalized_sales_tag

\* a variant that appends every candidate, matched already or not
AppendEveryCandidate(matches, candidates) == matches \o candidates

\* the loop that appends the candidates whose normalized tag is not matched yet
RECURSIVE AppendNewTags(_, _)
AppendNewTags(matches, candidates) ==
    IF candidates = <<>> THEN matches
    ELSE AppendNewTags(
            IF TagIn(Head(candidates), matches) THEN matches
            ELSE Append(matches, Head(candidates)),
            Tail(candidates))

\* 1. direct match with normalized unit/tag
DirectMatches(df, normalized_unit) ==
    SelectSeq(df, LAMBDA t : t.normalized_sales_tag = Text(normalized_unit))

\* 2. matching without CA prefix
PrefixMatches(df, normalized_unit, matches) ==
    IF StartsWith(normalized_unit, <<"C","A">>)
    THEN LET no_prefix == SubSeq(normalized_unit, 3, Len(normalized_unit))
         IN  AppendNewTags(matches, SelectSeq(df, LAMBDA t : TagContains(t, no_prefix)))
    ELSE matches

\* a variant without the third tier
NumericMatchesSkipped(df, normalized_unit, matches) == matches

\* 3. matching numeric part only
NumericMatches(df, normalized_unit, matches) ==
    IF HasChar(normalized_unit, "-") /\ IsDigit(AfterLastHyphen(normalized_unit))
    THEN LET numeric_part == AfterLastHyphen(normalized_unit)
         IN  AppendNewTags(matches, SelectSeq(df, LAMBDA t : TagContains(t, numeric_part)))
    ELSE matches

\* the matches list of one unit after the three tiers
MatchesOfUnit(df, normalized_unit) ==
    NumericMatches(df, normalized_unit,
        PrefixMatches(df, normalized_unit, DirectMatches(df, normalized_unit)))

\* the rows of the registry that the loops do not skip ("if not unit_number")
UnitRows(sm_df) == {i \in 1..Len(sm_df) : Truthy(sm_df[i].unit)}

\* the last row with this unit number: a later row overwrites the dictionary entry
LastRowOf(sm_df, unit_number) ==
    CHOOSE i \in UnitRows(sm_df) :
        /\ sm_df[i].unit.s = unit_number
        /\ \A j \in UnitRows(sm_df) : sm_df[j].unit.s = unit_number => j <= i

\* a variant that stores every unit's list, empty or not
match_every_unit(sm_df, c_df) ==
    LET df == WithNormalizedTags(c_df)
        units == {sm_df[i].unit.s : i \in UnitRows(sm_df)}
    IN  [u \in units |-> MatchesOfUnit(df, sm_df[LastRowOf(sm_df, u)].normalized)]

match_transactions_to_units(sm_df, c_df) ==
    IF sm_df = None \/ c_df = None THEN <<>>
    ELSE IF ~HasColumn(c_df, "sales_tag") THEN <<>>
    ELSE LET df == WithNormalizedTags(c_df)
             matchesOf(u) == MatchesOfUnit(df, sm_df[LastRowOf(sm_df, u)].normalized)
             units == {sm_df[i].unit.s : i \in UnitRows(sm_df)}
         IN  [u \in {v \in units : matchesOf(v) # <<>>} |-> matchesOf(u)]

----------------------------------------------------------------------------
(* Verifier                                                                *)

\* "abs(actual_amount - expected_amount) <= 1", in hundredths
AmountTolerance == 100
\* "abs(d['amount'] - cr_amount) < 0.01", in hundredths
BounceAmountTolerance == 1
\* "cr_date + timedelta(days=7)"
BounceWindowDays == 7

Abs(x) == IF x < 0 THEN 0 - x ELSE x

RECURSIVE SumAmounts(_)
SumAmounts(txns) ==
    IF txns = <<>> THEN 0 ELSE Head(txns).amount + SumAmounts(Tail(txns))

\* t.get('type', '') of a matched transaction: the column's value, or '' when
\* the DataFrame has no type column
TypeOf(c_df, t) == IF HasColumn(c_df, "type") THEN t.type ELSE Text(<<>>)

\* t.get('type', '').upper() == letter
HasType(c_df, t, letter) == Upper(TypeOf(c_df, t).s) = <<letter>>

credit_transactions(c_df, unit_transactions) ==
    SelectSeq(unit_transactions, LAMBDA t : HasType(c_df, t, "C"))

debit_transactions(c_df, unit_transactions) ==
    SelectSeq(unit_transactions, LAMBDA t : HasType(c_df, t, "D"))

\* a variant whose window ends before the seventh day
IsBounceBeforeDay7(cr_txn, d) ==
    /\ Truthy(d.date)
    /\ Truthy(cr_txn.date) /\ cr_txn.date.kind = "date"
    /\ d.date.kind = "date"
    /\ d.date.d >= cr_txn.date.d
    /\ d.date.d < cr_txn.date.d + BounceWindowDays
    /\ Abs(d.amount - cr_txn.amount) < BounceAmountTolerance

\* the condition of the potential_bounces comprehension
IsBounce(cr_txn, d) ==
    /\ Truthy(d.date)
    /\ Truthy(cr_txn.date) /\ cr_txn.date.kind = "date"
    /\ d.date.kind = "date"
    /\ d.date.d >= cr_txn.date.d
    /\ d.date.d <= cr_txn.date.d + BounceWindowDays
    /\ Abs(d.amount - cr_txn.amount) < BounceAmountTolerance

BounceRecord(cr_txn, d) ==
    [credit_date   |-> cr_txn.date,
     credit_amount |-> cr_txn.amount,
     debit_date    |-> d.date,
     debit_amount  |-> d.amount]

PotentialBounces(cr_txn, debits) ==
    LET hits == SelectSeq(debits, LAMBDA d : IsBounce(cr_txn, d))
    IN  [k \in 1..Len(hits) |-> BounceRecord(cr_txn, hits[k])]

RECURSIVE bounced_transactions(_, _)
bounced_transactions(credits, debits) ==
    IF credits = <<>> THEN <<>>
    ELSE PotentialBounces(Head(credits), debits)
         \o bounced_transactions(Tail(credits), debits)

\* customer.get('Amount received (Inc Taxes)', 0), 0 when pd.isna; a number
\* otherwise, a text value being kept as it is (see ExpectedIsText)
expected_amount(customer) ==
    IF customer.expected.kind = "null" THEN 0 ELSE customer.expected.n

\* a text value is not NaN, stays the expected amount, and int - str raises
\* TypeError in "abs(actual_amount - expected_amount)"
ExpectedIsText(customer) == customer.expected.kind = "text"

\* a variant with the tolerance exclusive
amount_match_exclusive(actual, expected) == Abs(actual - expected) < AmountTolerance

amount_match(actual, expected) == Abs(actual - expected) <= AmountTolerance

\* a variant without the error rule
StatusWithoutError(unit_transactions, matches, bounced) ==
    IF matches /\ bounced = <<>> THEN "verified" ELSE "warning"

\* a variant whose error rule does not ask for matched transactions
StatusErrorOnAnyMismatch(unit_transactions, matches, bounced) ==
    LET status == IF matches /\ bounced = <<>> THEN "verified" ELSE "warning"
    IN  IF ~matches THEN "error" ELSE status

StatusOf(unit_transactions, matches, bounced) ==
    LET status == IF matches /\ bounced = <<>> THEN "verified" ELSE "warning"
    IN  IF unit_transactions # <<>> /\ ~matches THEN "error" ELSE status

\* unit_transactions_map.get(unit_number, [])
TransactionsOfUnit(map, unit_number) ==
    IF unit_number \in DOMAIN map THEN map[unit_number] ELSE <<>>

\* the dictionary stored for one registry row
VerifyUnit(customer, c_df, unit_transactions) ==
    LET credits  == credit_transactions(c_df, unit_transactions)
        debits   == debit_transactions(c_df, unit_transactions)
        total_credits == SumAmounts(credits)
        total_debits  == SumAmounts(debits)
        actual   == total_credits - total_debits
        bounced  == bounced_transactions(credits, debits)
        expected == expected_amount(customer)
        matches  == amount_match(actual, expected)
    IN  [unit_number          |-> customer.unit.s,
         customer_name        |-> customer.name,
         expected_amount      |-> expected,
         actual_amount        |-> actual,
         amount_match         |-> matches,
         total_credits        |-> total_credits,
         total_debits         |-> total_debits,
         transaction_count    |-> Len(unit_transactions),
         bounced_transactions |-> bounced,
         has_bounced          |-> Len(bounced) > 0,
         status               |-> StatusOf(unit_transactions, matches, bounced),
         transactions         |-> unit_transactions]

\* None.iterrows() raises AttributeError; a DataFrame without rows has no
\* 'Unit Number' column and sales_master_df['Unit Number'] raises KeyError in
\* match_transactions_to_units; NaN.upper(), for a matched transaction
\* without a Dr/Cr value in a DataFrame that has the type column, raises
\* AttributeError; a text expected amount raises TypeError
VerifyRaises(sm_df, c_df, map) ==
    \/ sm_df = None
    \/ sm_df = <<>>
    \/ \E i \in UnitRows(sm_df) :
          LET txns == TransactionsOfUnit(map, sm_df[i].unit.s)
          IN  \/ \E k \in 1..Len(txns) : TypeOf(c_df, txns[k]) = Null
              \/ ExpectedIsText(sm_df[i])

verify_transactions(sm_df, c_df, map) ==
    [u \in {sm_df[i].unit.s : i \in UnitRows(sm_df)} |->
        VerifyUnit(sm_df[LastRowOf(sm_df, u)], c_df, TransactionsOfUnit(map, u))]

----------------------------------------------------------------------------
(* The upload handler: one run over an uploaded workbook                   *)

ParseSalesMaster ==
    /\ pc = "uploaded"
    /\ sales_master_df' = parse_sales_master(registry_rows)
    /\ pc' = "registry"
    /\ UNCHANGED <<inputs, history, sheet_names, accounts_info, collection_df,
                   unit_transactions_map, verification_results,
                   dashboard_data, preview_data>>

ParseCollection ==
    /\ pc = "registry"
    /\ collection_df' = parse_collection_transactions(ledger_rows)
    /\ pc' = "ledger"
    /\ UNCHANGED <<inputs, history, sheet_names, sales_master_df,
                   accounts_info, unit_transactions_map, verification_results,
                   dashboard_data, preview_data>>

\* verify_transactions, with its call of match_transactions_to_units; an
\* exception leaves the stored results as they were
VerifyTransactions ==
    /\ pc = "ledger"
    /\ LET map == match_transactions_to_units(sales_master_df, collection_df)
       IN  /\ unit_transactions_map' = map
           /\ IF VerifyRaises(sales_master_df, collection_df, map)
              THEN /\ pc' = "failed"
                   /\ UNCHANGED verification_results
              ELSE /\ pc' = "verified"
                   /\ verification_results' =
                        verify_transactions(sales_master_df, collection_df, map)
    /\ UNCHANGED <<inputs, history, sheet_names, sales_master_df,
                   accounts_info, collection_df, dashboard_data,
                   preview_data>>

Next == ParseSalesMaster \/ ParseCollection \/ VerifyTransactions

----------------------------------------------------------------------------
(* Workbooks                                                               *)

SeqsUpTo(S, n) == UNION {[1..k -> S] : k \in 0..n}

CA04_402 == <<"C","A","0","4","-","4","0","2">>
CA14_402 == <<"C","A","1","4","-","4","0","2">>
CustomerName == Text(<<"A","s","h","a">>)

RegistryRow(unit, name, expected) == [unit |-> unit, name |-> name, expected |-> expected]
LedgerRow(date, amount, type, sales_tag) ==
    [date |-> date, amount |-> amount, type |-> type, sales_tag |-> sales_tag]

\* the session before the first run
FreshSession ==
    /\ pc = "uploaded"
    /\ workbook = <<>>
    /\ sheet_names = [sales_master |-> Null, collection |-> Null]
    /\ sales_master_df = None
    /\ accounts_info = None
    /\ collection_df = None
    /\ unit_transactions_map = <<>>
    /\ verification_results = <<>>
    /\ dashboard_data = <<>>
    /\ run = 1
    /\ previous_results = <<>>
    /\ preview_data = <<>>

\* Status: one unit, ledger rows tagged with the unit's id
MaxStatusRows == 2
StatusExpected == {Null, Num(0), Num(100), Num(30000000), Num(50000000)}
StatusLedgerRows ==
    {LedgerRow(Date(d), Num(a), Text(<<ty>>), Text(CA04_402)) :
        d \in {10, 12}, a \in {50000000, 100}, ty \in {"C", "D"}}

InitStatus ==
    /\ registry_rows \in {<<RegistryRow(Text(CA04_402), CustomerName, e)>> : e \in StatusExpected}
    /\ ledger_rows \in SeqsUpTo(StatusLedgerRows, MaxStatusRows)
    /\ FreshSession

SpecStatus == InitStatus /\ [][Next]_vars

\* Direction: one unit, ledger rows with the Dr/Cr cell in several spellings,
\* or empty
MaxDirectionRows == 2
DirectionTokens ==
    {<<"C">>, <<"c">>, <<"C","r">>, <<"C","R">>, <<"C","r","e","d","i","t">>,
     <<"D">>, <<"D","r">>, <<"D","e","b","i","t">>}
DirectionLedgerRows ==
    {LedgerRow(Date(10), Num(a), ty, Text(CA04_402)) :
        a \in {100, 200}, ty \in {Text(tok) : tok \in DirectionTokens} \cup {Null}}

InitDirection ==
    /\ registry_rows = <<RegistryRow(Text(CA04_402), CustomerName, Num(300))>>
    /\ ledger_rows \in SeqsUpTo(DirectionLedgerRows, MaxDirectionRows)
    /\ FreshSession

SpecDirection == InitDirection /\ [][Next]_vars

\* Bounce: one unit, credits on days 10 and 11, debits before, on and after
\* them; one date is a spreadsheet serial number
MaxBounceRows == 3
BounceLedgerRows ==
    {LedgerRow(Date(10), Num(500), Text(<<"C">>), Text(CA04_402)),
     LedgerRow(Date(11), Num(500), Text(<<"C">>), Text(CA04_402)),
     LedgerRow(Date(10), Num(700), Text(<<"C">>), Text(CA04_402)),
     LedgerRow(Date(9),  Num(500), Text(<<"D">>), Text(CA04_402)),
     LedgerRow(Date(10), Num(500), Text(<<"D">>), Text(CA04_402)),
     LedgerRow(Num(13),  Num(500), Text(<<"D">>), Text(CA04_402)),
     LedgerRow(Date(17), Num(500), Text(<<"D">>), Text(CA04_402)),
     LedgerRow(Date(18), Num(500), Text(<<"D">>), Text(CA04_402)),
     LedgerRow(Date(13), Num(501), Text(<<"D">>), Text(CA04_402))}

InitBounce ==
    /\ registry_rows = <<RegistryRow(Text(CA04_402), CustomerName, Num(0))>>
    /\ ledger_rows \in SeqsUpTo(BounceLedgerRows, MaxBounceRows)
    /\ FreshSession

SpecBounce == InitBounce /\ [][Next]_vars

\* Tolerance: one unit expecting 100000, receipts around it
MaxToleranceRows == 2
ToleranceLedgerRows ==
    {LedgerRow(Date(10), Num(a), Text(<<"C">>), Text(CA04_402)) :
        a \in {10000000, 10000100, 10000101, 10000200, 9999900}}
    \cup {LedgerRow(Date(10), Num(a), Text(<<"D">>), Text(CA04_402)) : a \in {100, 101}}

InitTolerance ==
    /\ registry_rows \in {<<RegistryRow(Text(CA04_402), CustomerName, e)>> :
                            e \in {Num(10000000), Null}}
    /\ ledger_rows \in SeqsUpTo(ToleranceLedgerRows, MaxToleranceRows)
    /\ FreshSession

SpecTolerance == InitTolerance /\ [][Next]_vars

\* Match: up to MaxUnits registry rows, with or without a unit number, ledger
\* rows with the tags in several forms
MaxUnits == 2
MaxMatchRows == 2
MatchRegistryRows ==
    {RegistryRow(Text(u), CustomerName, Num(50000000)) :
        u \in {CA04_402, CA14_402, <<"c","a","0","4","4","0","2">>,
                <<"C","A","0","7","1","2","0","8">>}}
    \cup {RegistryRow(Null, CustomerName, Num(50000000)),
          RegistryRow(Null, Null, Null)}
MatchTags ==
    {Text(<<"C","A"," ","0","4","-","4","0","2">>), Text(CA14_402),
     Text(<<"0","4","-","4","0","2">>), Text(<<"C","B","-","7">>), Null}
MatchLedgerRows ==
    {LedgerRow(Date(10), Num(50000000), Text(<<"C">>), tag) : tag \in MatchTags}

InitMatch ==
    /\ registry_rows \in SeqsUpTo(MatchRegistryRows, MaxUnits)
    /\ ledger_rows \in SeqsUpTo(MatchLedgerRows, MaxMatchRows)
    /\ FreshSession

SpecMatch == InitMatch /\ [][Next]_vars

\* every workbook above
Init == InitStatus \/ InitDirection \/ InitBounce \/ InitTolerance \/ InitMatch

Spec == Init /\ [][Next]_vars

----------------------------------------------------------------------------
(* Claims about the Verifier's status                                      *)

Results == {verification_results[u] : u \in DOMAIN verification_results}

\* the status that the stated precedence gives a result
StatedStatus(r) ==
    IF r.transaction_count >= 1 /\ Abs(r.actual_amount - r.expected_amount) > 100
    THEN "error"
    ELSE IF r.bounced_transactions # <<>> THEN "warning"
    ELSE IF r.transaction_count = 0 /\ r.expected_amount # 0 THEN "warning"
    ELSE "verified"

\* C1: every unit's status follows the precedence error (matched and amounts
\* differ by more than 1), warning (bounced pair), warning (nothing matched and
\* a non-zero expected amount), verified; a unit with nothing matched is
\* verified only for expected amount 0.
C1_StatusPrecedence ==
    pc = "verified" => \A r \in Results : r.status = StatedStatus(r)

\* Scenario B: unit CA04-402 expecting 500000, a credit of 500000 and two
\* days later a debit of 500000 with the same tag
ScenarioB ==
    /\ registry_rows = <<RegistryRow(Text(CA04_402), CustomerName, Num(50000000))>>
    /\ ledger_rows = <<LedgerRow(Date(10), Num(50000000), Text(<<"C">>), Text(CA04_402)),
                       LedgerRow(Date(12), Num(50000000), Text(<<"D">>), Text(CA04_402))>>

\* C2 as stated: Scenario B ends with status warning, one bounced pair and
\* actual amount 0.
C2_ScenarioB_Warning ==
    (pc = "verified" /\ ScenarioB) =>
        /\ CA04_402 \in DOMAIN verification_results
        /\ verification_results[CA04_402].status = "warning"
        /\ Len(verification_results[CA04_402].bounced_transactions) = 1
        /\ verification_results[CA04_402].actual_amount = 0

\* C2 as amended: Scenario B ends with status error (the net receipt 0 differs
\* from the expected 500000 and the error rule comes first), one bounced pair
\* and actual amount 0.
C2_ScenarioB_Error ==
    (pc = "verified" /\ ScenarioB) =>
        /\ CA04_402 \in DOMAIN verification_results
        /\ verification_results[CA04_402].status = "error"
        /\ Len(verification_results[CA04_402].bounced_transactions) = 1
        /\ verification_results[CA04_402].actual_amount = 0
        /\ verification_results[CA04_402].transaction_count = 2

C2_Witness ==
    /\ pc = "verified" /\ ScenarioB
    /\ verification_results[CA04_402].has_bounced

\* C6: every result's status is verified, warning or error; error only with a
\* matched transaction and amount_match false; verified only with amount_match
\* true and no bounced pair.
C6_StatusInvariant ==
    \A r \in Results :
        /\ r.status \in {"verified", "warning", "error"}
        /\ r.status = "error" => (r.transactions # <<>> /\ ~r.amount_match)
        /\ r.status = "verified" => (r.amount_match /\ r.bounced_transactions = <<>>)

\* amounts match and a pair bounced: warning, not verified
C6_Witness ==
    /\ pc = "verified"
    /\ \E r \in Results :
          r.status = "warning" /\ r.amount_match /\ r.bounced_transactions # <<>>

----------------------------------------------------------------------------
(* Claims about the Verifier's sums and bounced pairs                      *)

\* C3: with every Dr/Cr cell of the ledger one of C, c, Cr, CR, Credit, D, Dr,
\* Debit, every matched transaction is counted in exactly one of total_credits
\* and total_debits: the two totals add up to the sum of the matched amounts
\* and actual_amount is their difference.
C3_DirectionPartition ==
    (pc = "verified"
        /\ \A i \in 1..Len(ledger_rows) :
              ledger_rows[i].type \in {Text(tok) : tok \in DirectionTokens}) =>
        \A r \in Results :
            /\ r.total_credits + r.total_debits = SumAmounts(r.transactions)
            /\ r.actual_amount = r.total_credits - r.total_debits

\* the pairs (credit, debit) of a result's matched transactions with the same
\* amount and the debit dated from the credit's day to 7 days after it
WindowPairs(r) ==
    LET T == r.transactions
    IN  {p \in (1..Len(T)) \X (1..Len(T)) :
            /\ HasType(collection_df, T[p[1]], "C")
            /\ HasType(collection_df, T[p[2]], "D")
            /\ T[p[1]].amount = T[p[2]].amount
            /\ T[p[1]].date.kind = "date" /\ T[p[2]].date.kind = "date"
            /\ T[p[1]].date.d <= T[p[2]].date.d
            /\ T[p[2]].date.d <= T[p[1]].date.d + 7}

PairOf(r, p) ==
    [credit_date   |-> r.transactions[p[1]].date,
     credit_amount |-> r.transactions[p[1]].amount,
     debit_date    |-> r.transactions[p[2]].date,
     debit_amount  |-> r.transactions[p[2]].amount]

C5_ToleranceInclusive ==
    pc = "verified" =>
        \A r \in Results :
            LET diff == (r.total_credits - r.total_debits) - r.expected_amount
            IN  r.amount_match <=> (diff >= -100 /\ diff <= 100)

\* expected 100000 and actual 100001: amounts match
C5_Witness ==
    /\ pc = "verified"
    /\ \E r \in Results :
          /\ r.expected_amount = 10000000
          /\ r.actual_amount = 10000100
          /\ r.amount_match

----------------------------------------------------------------------------
(* Claims about the Matcher                                                *)

\* C7: verify_transactions returns one result per kept registry row.
C7_OneResultPerRow ==
    pc = "verified" => Cardinality(DOMAIN verification_results) = Len(sales_master_df)

\* C8: no ledger transaction is in the matched lists of two units with
\* different normalized unit ids.
C8_ManyToOne ==
    pc = "verified" =>
        \A i, j \in UnitRows(sales_master_df) :
            sales_master_df[i].normalized # sales_master_df[j].normalized =>
                LET Ti == TransactionsOfUnit(unit_transactions_map, sales_master_df[i].unit.s)
                    Tj == TransactionsOfUnit(unit_transactions_map, sales_master_df[j].unit.s)
                IN  \A a \in 1..Len(Ti), b \in 1..Len(Tj) : Ti[a].row # Tj[b].row

\* C9 as stated: the mapping has an entry for every registry unit with a
\* unit number.
C9_EveryUnitMapped ==
    pc \in {"verified", "failed"} =>
        \A i \in UnitRows(sales_master_df) :
            sales_master_df[i].unit.s \in DOMAIN unit_transactions_map

\* whether some tier of the Matcher finds transaction t for the normalized id
TierFinds(normalized_unit, t) ==
    /\ t.normalized_sales_tag # Null
    /\ \/ t.normalized_sales_tag.s = normalized_unit
       \/ /\ StartsWith(normalized_unit, <<"C","A">>)
          /\ Contains(t.normalized_sales_tag.s,
                      SubSeq(normalized_unit, 3, Len(normalized_unit)))
       \/ /\ HasChar(normalized_unit, "-")
          /\ IsDigit(AfterLastHyphen(normalized_unit))
          /\ Contains(t.normalized_sales_tag.s, AfterLastHyphen(normalized_unit))

\* C9 as amended: the mapping has an entry, a non-empty list, exactly for the
\* units for which some tier finds a transaction; a unit for which no tier
\* finds one is left out of the mapping, and its result has no transactions.
C9_OnlyMatchedUnitsMapped ==
    pc \in {"verified", "failed"} =>
        /\ \A i \in UnitRows(sales_master_df) :
              sales_master_df[i].unit.s \in DOMAIN unit_transactions_map
                <=> \E k \in 1..Len(collection_df) :
                       TierFinds(sales_master_df[i].normalized, collection_df[k])
        /\ \A u \in DOMAIN unit_transactions_map : unit_transactions_map[u] # <<>>
        /\ pc = "verified" =>
              \A u \in DOMAIN verification_results :
                  u \notin DOMAIN unit_transactions_map =>
                      /\ verification_results[u].transaction_count = 0
                      /\ verification_results[u].transactions = <<>>

\* a unit without a transaction next to a unit with one
C9_Witness ==
    /\ pc = "verified"
    /\ \E u \in DOMAIN verification_results : u \notin DOMAIN unit_transactions_map
    /\ \E u \in DOMAIN verification_results : u \in DOMAIN unit_transactions_map
    /\ collection_df # <<>>

\* Scenario A: unit CA04-402 expecting 500000, one credit of 500000 tagged
\* 'CA 04-402'
ScenarioA ==
    /\ registry_rows = <<RegistryRow(Text(CA04_402), CustomerName, Num(50000000))>>
    /\ ledger_rows = <<LedgerRow(Date(10), Num(50000000), Text(<<"C">>),
                                 Text(<<"C","A"," ","0","4","-","4","0","2">>))>>

\* C10: Scenario A gives the unit exactly one matched transaction, actual
\* amount 500000 and status verified.
C10_ScenarioA ==
    (pc = "verified" /\ ScenarioA) =>
        /\ DOMAIN verification_results = {CA04_402}
        /\ verification_results[CA04_402].transaction_count = 1
        /\ Len(unit_transactions_map[CA04_402]) = 1
        /\ verification_results[CA04_402].actual_amount = 50000000
        /\ verification_results[CA04_402].status = "verified"

C10_Witness ==
    /\ pc = "verified" /\ ScenarioA
    /\ collection_df[1].normalized_sales_tag = Text(CA04_402)

----------------------------------------------------------------------------
(* Workbooks for the fallback tiers and for the normalizer                 *)

\* Fallback: unit CA04-402, ledger rows whose tags are near misses of it; one
\* tag is a number cell
MaxFallbackRows == 2
Tag04402 == <<"0","4","4","0","2">>
FallbackTags ==
    {Text(Tag04402), Text(<<"0","4","-","4","0","2">>),
     Text(<<"C","A","1","0","4","-","4","0","2">>),
     Text(<<"0","4","-","4","0","2","1">>), Text(<<"9","-","9">>), Num(4402)}
FallbackLedgerRows ==
    {LedgerRow(Date(10), Num(50000000), Text(<<"C">>), tag) : tag \in FallbackTags}

InitFallback ==
    /\ registry_rows = <<RegistryRow(Text(CA04_402), CustomerName, Num(50000000))>>
    /\ ledger_rows \in SeqsUpTo(FallbackLedgerRows, MaxFallbackRows)
    /\ FreshSession

SpecFallback == InitFallback /\ [][Next]_vars

\* Normalize: one registry row whose unit number is any text made of a prefix
\* and up to MaxNormBody digits, hyphens and spaces
MaxNormBody == 6
NormPrefixes ==
    {<<>>, <<"C","A">>, <<"c","a">>, <<" ","C","a"," ">>, <<"C","B">>}
NormInputs ==
    {p \o b : p \in NormPrefixes, b \in SeqsUpTo({"0", "-", " "}, MaxNormBody)}

InitNormalize ==
    /\ registry_rows \in {<<RegistryRow(Text(x), CustomerName, Num(0))>> : x \in NormInputs}
    /\ ledger_rows = <<>>
    /\ FreshSession

SpecNormalize == InitNormalize /\ [][Next]_vars

----------------------------------------------------------------------------
(* Claims about the fallback tiers and the normalizer                      *)

\* Scenario D: unit CA04-402 and a ledger with one transaction tagged 04402,
\* next to transactions with other tags or none
ScenarioD ==
    /\ registry_rows = <<RegistryRow(Text(CA04_402), CustomerName, Num(50000000))>>
    /\ Cardinality({i \in 1..Len(ledger_rows) : ledger_rows[i].sales_tag = Text(Tag04402)}) = 1

\* C11: in Scenario D the transaction tagged 04402 is in the list of unit
\* CA04-402, although the exact tier does not find it.
C11_ScenarioD ==
    (pc = "verified" /\ ScenarioD) =>
        /\ CA04_402 \in DOMAIN unit_transactions_map
        /\ \A i \in 1..Len(collection_df) :
              collection_df[i].sales_tag = Text(Tag04402) =>
                  /\ \E k \in 1..Len(unit_transactions_map[CA04_402]) :
                        unit_transactions_map[CA04_402][k].row = collection_df[i].row
                  /\ \A k \in 1..Len(DirectMatches(WithNormalizedTags(collection_df), CA04_402)) :
                        DirectMatches(WithNormalizedTags(collection_df), CA04_402)[k].row
                            # collection_df[i].row

\* the transaction tagged 04402 is the only one of the ledger
C11_Witness ==
    /\ pc = "verified" /\ ScenarioD
    /\ Len(ledger_rows) = 1
    /\ verification_results[CA04_402].transaction_count = 1

\* C12: normalizing a normalized identifier changes nothing.
C12_NormalizeIdempotent ==
    pc # "uploaded" =>
        \A i \in 1..Len(sales_master_df) :
            normalize_unit_number(Text(sales_master_df[i].normalized))
                = sales_master_df[i].normalized

\* a lower-case identifier with spaces that got its hyphen after four characters
C12_Witness ==
    /\ pc = "registry"
    /\ registry_rows[1].unit = Text(<<" ","C","a"," ","0","0"," ","0","0","0">>)
    /\ sales_master_df[1].normalized = <<"C","A","0","0","-","0","0","0">>

----------------------------------------------------------------------------
(* Workbook and claim for the expected amount                              *)

\* Expected: up to MaxExpectedUnits units whose expected amount is a number,
\* missing, the text 'N/A' or the empty text
MaxExpectedUnits == 2
NotAvailable == <<"N","/","A">>
ExpectedCells == {Null, Num(0), Num(50000), Text(NotAvailable), Text(<<>>)}
ExpectedRegistryRows ==
    {RegistryRow(Text(u), CustomerName, e) :
        u \in {CA04_402, <<"C","A","0","7","-","1","2","0","8">>}, e \in ExpectedCells}

InitExpected ==
    /\ registry_rows \in SeqsUpTo(ExpectedRegistryRows, MaxExpectedUnits)
    /\ ledger_rows \in {<<>>, <<LedgerRow(Date(10), Num(50000), Text(<<"C">>), Text(CA04_402))>>}
    /\ FreshSession

SpecExpected == InitExpected /\ [][Next]_vars

\* C17: whatever the inc-tax cell of a unit holds, the verification ends with
\* a result for every unit, and a unit whose cell is not a number has
\* expected_amount 0.
C17_ExpectedDefaultsToZero ==
    pc \in {"verified", "failed"} =>
        /\ pc = "verified"
        /\ \A i \in UnitRows(sales_master_df) :
              /\ sales_master_df[i].unit.s \in DOMAIN verification_results
              /\ sales_master_df[LastRowOf(sales_master_df, sales_master_df[i].unit.s)].expected.kind # "num"
                    => verification_results[sales_master_df[i].unit.s].expected_amount = 0

----------------------------------------------------------------------------
(* Workbook and claims for the rows the Transaction Extractor keeps        *)

\* Extract: one unit, ledger rows whose date cell is a date, a serial number,
\* a negative number, empty or the text 'n/a', and whose amount cell is
\* positive, negative, zero, empty or text
MaxExtractRows == 2
ExtractDates == {Date(10), Num(45000), Num(0 - 3), Null, Text(<<"n","/","a">>)}
ExtractAmounts == {Num(50000), Num(0 - 50000), Num(0), Null, Text(<<"a","b","c">>)}
ExtractLedgerRows ==
    {LedgerRow(d, a, Text(<<"C">>), Text(CA04_402)) : d \in ExtractDates, a \in ExtractAmounts}

InitExtract ==
    /\ registry_rows = <<RegistryRow(Text(CA04_402), CustomerName, Num(50000))>>
    /\ ledger_rows \in SeqsUpTo(ExtractLedgerRows, MaxExtractRows)
    /\ FreshSession

SpecExtract == InitExtract /\ [][Next]_vars

Extracted == pc \in {"ledger", "verified", "failed"}

\* a row that the claim says produces no transaction
RowWithoutAmountOrDate(row) ==
    \/ row.amount.kind # "num"
    \/ row.amount.n = 0
    \/ row.date.kind = "null"
    \/ row.date.kind = "text" /\ extract_excel_date(row.date) = Null

----------------------------------------------------------------------------
(* Sheets of a workbook                                                    *)
(* A sheet has a name and rows; a row is the sequence of its cells, Null   *)
(* for an empty cell.                                                      *)

Sheet(name, rows) == [name |-> name, rows |-> rows]

\* the value of the cell in row r and column c, both counted from 1; None
\* outside the sheet
Cell(sheet, r, c) ==
    IF r \in 1..Len(sheet.rows) /\ c \in 1..Len(sheet.rows[r])
    THEN sheet.rows[r][c] ELSE Null

LowerChar(ch) ==
    IF \E i \in 1..26 : UpperLetters[i] = ch
    THEN LowerLetters[CHOOSE i \in 1..26 : UpperLetters[i] = ch]
    ELSE ch

\* str.lower()
Lower(s) == [i \in 1..Len(s) |-> LowerChar(s[i])]

Minimum(S) == CHOOSE x \in S : \A y \in S : x <= y
Maximum(S) == CHOOSE x \in S : \A y \in S : x >= y

----------------------------------------------------------------------------
(* Registry sheet: header row and Header Mapper of parse_sales_master      *)

\* the standardized column names

SrNo ==
    <<"S","r"," ","N","o">>
NameOfCustomer ==
    <<"N","a","m","e"," ","o","f"," ","C","u","s","t","o","m","e","r">>
UnitNumber ==
    <<"U","n","i","t"," ","N","u","m","b","e","r">>
TowerNo ==
    <<"T","o","w","e","r"," ","N","o">>
BookingDate ==
    <<"B","o","o","k","i","n","g"," ","d","a","t","e">>
BookingStatus ==
    <<"B","o","o","k","i","n","g"," ","S","t","a","t","u","s">>
SelfFundedOrLoan ==
    <<"S","e","l","f","-","f","u","n","d","e","d"," ","o","r"," ","l","o",
      "a","n"," ","a","v","a","i","l","e","d">>
PaymentPlan ==
    <<"P","a","y","m","e","n","t"," ","P","l","a","n">>
BuilderBuyerAgreement ==
    <<"B","u","i","l","d","e","r"," ","B","u","y","e","r"," ","A","g","r",
      "e","e","m","e","n","t">>
TypeOfUnit ==
    <<"T","y","p","e"," ","o","f"," ","U","n","i","t">>
AreaSqft ==
    <<"A","r","e","a","(","s","q","f","t",")">>
CarpetAreaSqft ==
    <<"C","a","r","p","e","t"," ","A","r","e","a","(","s","q","f","t",")">>
BspSqFt ==
    <<"B","S","P","/","S","q","F","t">>
BasicPriceExlTaxes ==
    <<"B","a","s","i","c"," ","P","r","i","c","e"," ","("," ","E","x","l",
      " ","T","a","x","e","s",")">>
AmountReceivedExlTaxes ==
    <<"A","m","o","u","n","t"," ","r","e","c","e","i","v","e","d"," ","(",
      " ","E","x","l"," ","T","a","x","e","s",")">>
TaxesReceived ==
    <<"T","a","x","e","s"," ","R","e","c","e","i","v","e","d">>
AmountReceivedIncTaxes ==
    <<"A","m","o","u","n","t"," ","r","e","c","e","i","v","e","d"," ","(",
      "I","n","c"," ","T","a","x","e","s",")">>
BalanceReceivables ==
    <<"B","a","l","a","n","c","e"," ","r","e","c","e","i","v","a","b","l",
      "e","s"," ","(","T","o","t","a","l"," ","S","a","l","e"," ","C","o",
      "n","s","i","d","e","r","a","t","i","o","n"," ",")">>
BrokerName ==
    <<"B","r","o","k","e","r"," ","N","a","m","e">>
CoApplicantName ==
    <<"C","O","-","A","P","P","L","I","C","A","N","T"," ","N","A","M","E">>

\* the keys that make a row the header row
HeaderKeys ==
    {<<"s","r"," ","n","o">>, <<"c","u","s","t","o","m","e","r">>,
     <<"u","n","i","t">>, <<"t","o","w","e","r">>, <<"b","o","o","k","i","n","g">>}

IsKeyCell(cell) ==
    /\ cell.kind = "text" /\ cell.s # <<>>
    /\ \E key \in HeaderKeys : Contains(Lower(cell.s), key)

col_matches(row) == Cardinality({c \in 1..Len(row) : IsKeyCell(row[c])})

\* the first of the rows 1..10 with at least 3 key columns; 0 stands for None
header_row(sheet) ==
    LET last == IF Len(sheet.rows) < 10 THEN Len(sheet.rows) ELSE 10
        found == {r \in 1..last : col_matches(sheet.rows[r]) >= 3}
    IN  IF found = {} THEN 0 ELSE Minimum(found)

\* the if/elif chain over the lower-cased header, in its order: each rule with
\* its test and the name it assigns
HeaderRules(header_str) ==
    LET has(w) == Contains(header_str, w)
    IN  <<
         [hit  |-> has(<<"s","r">>) \/ has(<<"s","e","r","i","a","l">>),
          name |-> SrNo],
         [hit  |-> has(<<"c","u","s","t","o","m","e","r">>) \/ has(<<"n","a","m","e">>),
          name |-> NameOfCustomer],
         [hit  |-> has(<<"u","n","i","t">>) /\ has(<<"n","u","m","b","e","r">>),
          name |-> UnitNumber],
         [hit  |-> has(<<"t","o","w","e","r">>),
          name |-> TowerNo],
         [hit  |-> has(<<"b","o","o","k","i","n","g">>) /\ has(<<"d","a","t","e">>),
          name |-> BookingDate],
         [hit  |-> has(<<"s","t","a","t","u","s">>) /\ (has(<<"b","o","o","k","i","n","g">>) \/ has(<<"a","c","t","i","v","e">>) \/ has(<<"c","a","n","c","e","l","l","e","d">>)),
          name |-> BookingStatus],
         [hit  |-> (has(<<"s","e","l","f">>) /\ has(<<"f","u","n","d">>)) \/ (has(<<"l","o","a","n">>) /\ has(<<"a","v","a","i","l">>)),
          name |-> SelfFundedOrLoan],
         [hit  |-> has(<<"p","a","y","m","e","n","t">>) /\ has(<<"p","l","a","n">>),
          name |-> PaymentPlan],
         [hit  |-> has(<<"b","u","i","l","d","e","r">>) /\ has(<<"b","u","y","e","r">>) /\ has(<<"a","g","r","e","e","m","e","n","t">>),
          name |-> BuilderBuyerAgreement],
         [hit  |-> has(<<"t","y","p","e">>) /\ has(<<"u","n","i","t">>),
          name |-> TypeOfUnit],
         [hit  |-> has(<<"a","r","e","a">>) /\ ~has(<<"c","a","r","p","e","t">>),
          name |-> AreaSqft],
         [hit  |-> has(<<"c","a","r","p","e","t">>) /\ has(<<"a","r","e","a">>),
          name |-> CarpetAreaSqft],
         [hit  |-> has(<<"b","s","p">>) /\ has(<<"s","q","f","t">>),
          name |-> BspSqFt],
         [hit  |-> (has(<<"b","a","s","i","c">>) /\ has(<<"p","r","i","c","e">>)) \/ (has(<<"b","a","s","i","c">>) /\ has(<<"e","x","l">>)),
          name |-> BasicPriceExlTaxes],
         [hit  |-> has(<<"r","e","c","e","i","v","e","d">>) /\ (has(<<"a","m","o","u","n","t">>) \/ has(<<"a","m","t">>)) /\ ~has(<<"t","a","x">>) /\ ~has(<<"i","n","c">>),
          name |-> AmountReceivedExlTaxes],
         [hit  |-> has(<<"t","a","x">>) /\ has(<<"r","e","c","e","i","v","e","d">>),
          name |-> TaxesReceived],
         [hit  |-> has(<<"r","e","c","e","i","v","e","d">>) /\ (has(<<"i","n","c">>) \/ has(<<"w","i","t","h">>)) /\ has(<<"t","a","x">>),
          name |-> AmountReceivedIncTaxes],
         [hit  |-> (has(<<"b","a","l","a","n","c","e">>) /\ has(<<"r","e","c","e","i","v","a","b","l","e">>)) \/ (has(<<"t","o","t","a","l">>) /\ has(<<"c","o","n","s","i","d","e","r","a","t","i","o","n">>) /\ has(<<"b","a","l","a","n","c","e">>)),
          name |-> BalanceReceivables],
         [hit  |-> has(<<"b","r","o","k","e","r">>) /\ has(<<"n","a","m","e">>),
          name |-> BrokerName],
         [hit  |-> has(<<"c","o">>) /\ has(<<"a","p","p","l","i","c","a","n","t">>),
          name |-> CoApplicantName]>>

\* column_mapping[idx] of one header: the name of the first rule that hits, or
\* the header itself
MapHeader(header) ==
    LET rules == HeaderRules(Lower(Str(header)))
        hits  == {k \in 1..Len(rules) : rules[k].hit}
    IN  IF hits = {} THEN header ELSE Text(rules[Minimum(hits)].name)

\* the mapping of the header row; an empty header gets no entry
column_mapping(header_values) ==
    [idx \in {i \in 1..Len(header_values) : Truthy(header_values[i])} |->
        MapHeader(header_values[idx])]

\* row_data[name] after the loop over the cells of a row: the cell of the last
\* column mapped to the name; a name without a column is Null here, as the
\* missing value is NaN in the DataFrame
RowValue(mapping, row, name) ==
    LET cols == {idx \in DOMAIN mapping : mapping[idx] = Text(name)}
    IN  IF cols = {} THEN Null ELSE row[Maximum(cols)]

\* "Skip completely empty rows"
IsEmptyRow(row) == \A c \in 1..Len(row) : row[c] = Null \/ row[c] = Text(<<>>)

\* the row_data dictionaries of the rows below the header row, reduced to the
\* three columns that the Matcher and the Verifier read; the registry sheets
\* drawn below all have a header that is mapped to 'Unit Number'
row_data(sheet) ==
    LET hr      == header_row(sheet)
        mapping == column_mapping(sheet.rows[hr])
        rows    == SelectSeq(SubSeq(sheet.rows, hr + 1, Len(sheet.rows)),
                             LAMBDA row : ~IsEmptyRow(row))
    IN  [i \in 1..Len(rows) |->
            RegistryRow(RowValue(mapping, rows[i], UnitNumber),
                        RowValue(mapping, rows[i], NameOfCustomer),
                        RowValue(mapping, rows[i], AmountReceivedIncTaxes))]

\* parse_sales_master on a sheet: None without a header row
parse_sales_master_sheet(sheet) ==
    IF header_row(sheet) = 0 THEN None ELSE parse_sales_master(row_data(sheet))

----------------------------------------------------------------------------
(* Sheet Locator                                                           *)

AnnexSalesMaster ==
    <<"A","n","n","e","x"," ","-"," ","S","a","l","e","s"," ","M","a","s",
      "t","e","r">>
MainCollectionAC ==
    <<"M","a","i","n"," ","C","o","l","l","e","c","t","i","o","n"," ","A",
      "C"," ","P","1","_","P","2","_","P","3">>
MainCollection ==
    <<"M","a","i","n"," ","C","o","l","l","e","c","t","i","o","n">>
PhaseLabel ==
    <<"M","a","i","n"," ","C","o","l","l","e","c","t","i","o","n"," ","E",
      "s","c","r","o","w"," ","A","/","c"," ","P","h","a","s","e">>

\* str(cell.value); a datetime prints as digits and punctuation, which no
\* token searched for in a row contains, and is written as its day number
StrOfValue(c) == IF c.kind = "date" THEN DigitsOf(c.d) ELSE Str(c)

\* " ".join([str(cell.value) for cell in row if cell.value])
RECURSIVE row_text(_)
row_text(row) ==
    IF row = <<>> THEN <<>>
    ELSE LET rest == row_text(Tail(row))
         IN  IF ~Truthy(Head(row)) THEN rest
             ELSE IF rest = <<>> THEN StrOfValue(Head(row))
             ELSE StrOfValue(Head(row)) \o <<" ">> \o rest

\* whether one of the first max_row rows of the sheet has every token in its text
SniffRows(sheet, max_row, tokens) ==
    \E r \in 1..Len(sheet.rows) :
        r <= max_row /\ \A tok \in tokens : Contains(row_text(sheet.rows[r]), tok)

\* workbook[sheet_name]
SheetNamed(wb, sheet_name) == wb[CHOOSE i \in 1..Len(wb) : wb[i].name = sheet_name]

\* the name of the first of the sheets with the given positions, as a value;
\* Null when there is none
FirstSheetName(wb, hits) ==
    IF hits = {} THEN Null ELSE Text(wb[Minimum(hits)].name)

\* the three signals of the registry sheet
SalesMasterExact(sheet) == sheet.name = AnnexSalesMaster
SalesMasterSimilar(sheet) ==
    Contains(sheet.name, <<"A","n","n","e","x">>) /\ Contains(sheet.name, <<"S","a","l","e","s">>)
SalesMasterColumns(sheet) == SniffRows(sheet, 3, {UnitNumber, NameOfCustomer})

identify_sales_master_sheet(wb) ==
    LET exact   == {i \in 1..Len(wb) : SalesMasterExact(wb[i])}
        similar == {i \in 1..Len(wb) : SalesMasterSimilar(wb[i])}
        columns == {i \in 1..Len(wb) : SalesMasterColumns(wb[i])}
    IN  IF exact # {} THEN Text(AnnexSalesMaster)
        ELSE IF similar # {} THEN FirstSheetName(wb, similar)
        ELSE IF columns # {} THEN FirstSheetName(wb, columns)
        \* "If still not found, return first sheet as last resort"
        ELSE IF wb # <<>> THEN Text(wb[1].name) ELSE Null

\* the three signals of the ledger sheet
CollectionExact(sheet) == sheet.name = MainCollectionAC
CollectionSimilar(sheet) == Contains(sheet.name, MainCollection)
CollectionPhaseHeaders(sheet) == SniffRows(sheet, 10, {PhaseLabel})

identify_collection_sheet(wb) ==
    LET exact   == {i \in 1..Len(wb) : CollectionExact(wb[i])}
        similar == {i \in 1..Len(wb) : CollectionSimilar(wb[i])}
        headers == {i \in 1..Len(wb) : CollectionPhaseHeaders(wb[i])}
    IN  IF exact # {} THEN Text(MainCollectionAC)
        ELSE IF similar # {} THEN FirstSheetName(wb, similar)
        ELSE IF headers # {} THEN FirstSheetName(wb, headers)
        ELSE Null

----------------------------------------------------------------------------
(* Phase Segmenter: find_phase_transitions and identify_account_sections   *)
(* The ledger sheet is read cell by cell; rows and columns count from 1    *)
(* here, except where an account keeps the code's 0-based header row and   *)
(* column indices.                                                         *)

\* "Limit to first 5000 rows for performance"
PhaseScanLimit == 5000

\* the last row of the sheet's reference range
max_row(sheet) == Len(sheet.rows)

IsPhaseCell(sheet, r, c) ==
    /\ Truthy(Cell(sheet, r, c))
    /\ Contains(StrOfValue(Cell(sheet, r, c)), PhaseLabel)

\* an int or str value whose text is all digits and at least 10 long
IsAccountNumber(c) ==
    /\ Truthy(c) /\ c.kind \in {"text", "num"}
    /\ Str(c) # <<>> /\ IsDigit(Str(c)) /\ Len(Str(c)) >= 10

\* the account number near a phase label: the same row from the label's
\* column on, then the next four rows, columns A to E
AccountNumberNear(sheet, r, c) ==
    LET same == {ac \in c..(c + 4) : ac <= 26 /\ IsAccountNumber(Cell(sheet, r, ac))}
        next == {<<nr, ac>> \in ((r + 1)..(r + 4)) \X (1..5) :
                    nr <= max_row(sheet) /\ IsAccountNumber(Cell(sheet, nr, ac))}
    IN  IF same # {} THEN Text(Str(Cell(sheet, r, Minimum(same))))
        ELSE IF next # {}
             THEN LET nr == Minimum({p[1] : p \in next})
                      ac == Minimum({p[2] : p \in {q \in next : q[1] = nr}})
                  IN  Text(Str(Cell(sheet, nr, ac)))
        ELSE Null

\* the header row of a phase: the first of the label's row and the four rows
\* below it with 'Txn Date' in a text cell of columns A to E; 0 stands for None
HeaderRowNear(sheet, r) ==
    LET found == {hr \in r..(r + 4) :
                    /\ hr <= max_row(sheet)
                    /\ \E hc \in 1..5 :
                          /\ Cell(sheet, hr, hc).kind = "text"
                          /\ Contains(Cell(sheet, hr, hc).s, <<"T","x","n"," ","D","a","t","e">>)}
    IN  IF found = {} THEN 0 ELSE Minimum(found)

\* the cells of columns A, B and C in the order of the scan
ScannedCells(sheet) ==
    LET rows == IF max_row(sheet) < PhaseScanLimit THEN max_row(sheet) ELSE PhaseScanLimit
    IN  [k \in 1..(3 * rows) |-> <<((k - 1) \div 3) + 1, ((k - 1) % 3) + 1>>]

find_phase_transitions(sheet) ==
    IF sheet.rows = <<>> THEN <<>>
    ELSE LET hits == SelectSeq(ScannedCells(sheet),
                               LAMBDA rc : IsPhaseCell(sheet, rc[1], rc[2]))
         IN  [i \in 1..Len(hits) |->
                [row            |-> hits[i][1],
                 name           |-> StrOfValue(Cell(sheet, hits[i][1], hits[i][2])),
                 account_number |-> AccountNumberNear(sheet, hits[i][1], hits[i][2]),
                 header_row     |-> HeaderRowNear(sheet, hits[i][1]),
                 end_row        |-> IF i < Len(hits) THEN hits[i + 1][1] - 1
                                    ELSE max_row(sheet)]]

\* the field that a header of a phase's header row stands for; "" for none
FieldOfHeader(header_value) ==
    LET has(w) == Contains(header_value, w)
    IN  IF has(<<"t","x","n"," ","d","a","t","e">>) THEN "date"
        ELSE IF has(<<"d","e","s","c","r","i","p","t","i","o","n">>) THEN "description"
        ELSE IF has(<<"a","m","o","u","n","t">>) /\ ~has(<<"r","u","n","n","i","n","g">>) THEN "amount"
        ELSE IF (has(<<"d","r">>) /\ has(<<"c","r">>)) \/ header_value = <<"d","r","/","c","r">> THEN "type"
        ELSE IF has(<<"s","a","l","e","s">>) /\ has(<<"t","a","g">>) THEN "sales_tag"
        ELSE IF has(<<"r","u","n","n","i","n","g">>) /\ has(<<"t","o","t","a","l">>) THEN "running_total"
        ELSE ""

\* header_indices of a header row (counted from 0, as are the column
\* indices): a later column replaces an earlier one of the same field
header_indices(sheet, header_row0) ==
    LET width == IF sheet.rows = <<>> THEN 0 ELSE Len(sheet.rows[1])
        cols  == {c \in 0..((IF width < 25 THEN width ELSE 25) - 1) :
                    Truthy(Cell(sheet, header_row0 + 1, c + 1))}
        field(c) == FieldOfHeader(Lower(StrOfValue(Cell(sheet, header_row0 + 1, c + 1))))
        fields == {field(c) : c \in cols} \ {""}
    IN  [f \in fields |-> Maximum({c \in cols : field(c) = f})]

\* only a phase with a header row becomes an account
identify_account_sections(sheet) ==
    LET phases == SelectSeq(find_phase_transitions(sheet), LAMBDA phase : phase.header_row # 0)
    IN  [i \in 1..Len(phases) |->
            [name           |-> phases[i].name,
             number         |-> phases[i].account_number,
             start_row      |-> phases[i].row,
             end_row        |-> phases[i].end_row,
             header_row     |-> phases[i].header_row - 1,
             header_indices |-> header_indices(sheet, phases[i].header_row - 1)]]

----------------------------------------------------------------------------
(* Transaction Extractor on the sheet                                      *)

\* the cell of a field in the row with index r_idx (counted from 0); None for
\* a field without a column
FieldCell(sheet, account, field, r_idx) ==
    IF field \in DOMAIN account.header_indices
    THEN Cell(sheet, r_idx + 1, account.header_indices[field] + 1)
    ELSE Null

RowOfAccount(sheet, account, r_idx) ==
    LedgerRow(FieldCell(sheet, account, "date", r_idx),
              FieldCell(sheet, account, "amount", r_idx),
              FieldCell(sheet, account, "type", r_idx),
              FieldCell(sheet, account, "sales_tag", r_idx))

\* the transactions of one account: the rows with index header_row + 1 to
\* end_row, each stored with 'row': r_idx + 1
TransactionsOfAccount(sheet, account) ==
    IF "date" \notin DOMAIN account.header_indices
          \/ "amount" \notin DOMAIN account.header_indices
    THEN <<>>
    ELSE LET first == account.header_row + 1
             count == IF account.end_row >= first THEN account.end_row - first + 1 ELSE 0
             rows  == [k \in 1..count |-> first + k - 1]
             kept  == SelectSeq(rows, LAMBDA r_idx :
                                    KeepLedgerRow(RowOfAccount(sheet, account, r_idx)))
         IN  [k \in 1..Len(kept) |->
                TransactionOf(RowOfAccount(sheet, account, kept[k]), kept[k] + 1)]

RECURSIVE parse_collection_sheet(_, _)
parse_collection_sheet(sheet, accounts) ==
    IF accounts = <<>> THEN <<>>
    ELSE TransactionsOfAccount(sheet, Head(accounts))
         \o parse_collection_sheet(sheet, Tail(accounts))

----------------------------------------------------------------------------
(* The upload handler on a workbook                                        *)

\* calculate_dashboard_data, reduced to its two unit counts; {} without a
\* registry table
calculate_dashboard_data(sm_df, results) ==
    IF sm_df = None THEN <<>>
    ELSE [total_units |-> Len(sm_df),
          units_with_transactions |->
              Cardinality({u \in DOMAIN results : results[u].transaction_count > 0})]

\* the two locator calls and the branches on their results: without a name
\* the handler reports the error and does nothing else
IdentifySheets ==
    /\ pc = "workbook"
    /\ sheet_names' = [sales_master |-> identify_sales_master_sheet(workbook),
                       collection   |-> identify_collection_sheet(workbook)]
    /\ pc' = IF ~Truthy(sheet_names'.sales_master) \/ ~Truthy(sheet_names'.collection)
             THEN "not_found" ELSE "identified"
    /\ UNCHANGED <<inputs, history, sales_master_df, accounts_info,
                   collection_df, unit_transactions_map, verification_results,
                   dashboard_data, preview_data>>

ParseSalesMasterSheet ==
    /\ pc = "identified"
    /\ sales_master_df' =
          parse_sales_master_sheet(SheetNamed(workbook, sheet_names.sales_master.s))
    /\ pc' = "registry"
    /\ UNCHANGED <<inputs, history, sheet_names, accounts_info, collection_df,
                   unit_transactions_map, verification_results,
                   dashboard_data, preview_data>>

IdentifyAccountSections ==
    /\ pc = "registry"
    /\ accounts_info' =
          identify_account_sections(SheetNamed(workbook, sheet_names.collection.s))
    /\ pc' = "accounts"
    /\ UNCHANGED <<inputs, history, sheet_names, sales_master_df,
                   collection_df, unit_transactions_map, verification_results,
                   dashboard_data, preview_data>>

\* a variant that keeps the transactions of the previous run
ParseCollectionSheetAppending ==
    /\ pc = "accounts"
    /\ collection_df' =
          (IF collection_df = None THEN <<>> ELSE collection_df)
          \o parse_collection_sheet(SheetNamed(workbook, sheet_names.collection.s),
                                    accounts_info)
    /\ pc' = "ledger"
    /\ UNCHANGED <<inputs, history, sheet_names, sales_master_df,
                   accounts_info, unit_transactions_map, verification_results,
                   dashboard_data, preview_data>>

ParseCollectionSheet ==
    /\ pc = "accounts"
    /\ collection_df' =
          parse_collection_sheet(SheetNamed(workbook, sheet_names.collection.s),
                                 accounts_info)
    /\ pc' = "ledger"
    /\ UNCHANGED <<inputs, history, sheet_names, sales_master_df,
                   accounts_info, unit_transactions_map, verification_results,
                   dashboard_data, preview_data>>

CalculateDashboard ==
    /\ pc = "verified"
    /\ dashboard_data' = calculate_dashboard_data(sales_master_df, verification_results)
    /\ pc' = "done"
    /\ UNCHANGED <<inputs, history, sheet_names, sales_master_df,
                   accounts_info, collection_df, unit_transactions_map,
                   verification_results, preview_data>>

\* the number of runs over one uploaded file
MaxRuns == 2

\* the script runs again with the same uploaded file and the same session
\* state
Rerun ==
    /\ pc \in {"done", "failed", "not_found"}
    /\ run < MaxRuns
    /\ run' = run + 1
    /\ previous_results' = verification_results
    /\ pc' = "workbook"
    /\ UNCHANGED <<inputs, sheet_names, sales_master_df, accounts_info,
                   collection_df, unit_transactions_map, verification_results,
                   dashboard_data, preview_data>>

NextWorkbook ==
    \/ IdentifySheets
    \/ ParseSalesMasterSheet
    \/ IdentifyAccountSections
    \/ ParseCollectionSheet
    \/ VerifyTransactions
    \/ CalculateDashboard

\* runs over the same uploaded file, one after the other
NextRerun == NextWorkbook \/ Rerun

----------------------------------------------------------------------------
(* Workbooks with sheets                                                   *)

\* the session before the first run over an uploaded workbook
FreshWorkbookSession ==
    /\ registry_rows = <<>>
    /\ ledger_rows = <<>>
    /\ pc = "workbook"
    /\ sheet_names = [sales_master |-> Null, collection |-> Null]
    /\ sales_master_df = None
    /\ accounts_info = None
    /\ collection_df = None
    /\ unit_transactions_map = <<>>
    /\ verification_results = <<>>
    /\ dashboard_data = <<>>
    /\ run = 1
    /\ previous_results = <<>>
    /\ preview_data = <<>>

\* a registry sheet: the header row, then one row for unit CA04-402 with the
\* given cells under the amount headers
RegistryRows(amount_headers, amount_cells) ==
    <<<<Text(SrNo), Text(NameOfCustomer), Text(UnitNumber)>> \o amount_headers,
      <<Num(1), CustomerName, Text(CA04_402)>> \o amount_cells>>

StandardRegistryRows ==
    RegistryRows(<<Text(AmountReceivedIncTaxes)>>, <<Num(50000000)>>)

PhaseOne ==
    <<"M","a","i","n"," ","C","o","l","l","e","c","t","i","o","n"," ","E",
      "s","c","r","o","w"," ","A","/","c"," ","P","h","a","s","e"," ","1">>

\* rows of a ledger sheet, five columns wide: a phase label with its account
\* number, a phase label written in two columns, a header row, a credit of
\* unit CA04-402
LabelRow == <<Text(PhaseOne), Num(1234567890), Null, Null, Null>>
DoubleLabelRow == <<Text(PhaseOne), Text(PhaseOne), Null, Null, Null>>
TxnHeaderRow ==
    <<Text(<<"T","x","n"," ","D","a","t","e">>), Text(<<"D","e","s","c","r","i","p","t","i","o","n">>),
      Text(<<"A","m","o","u","n","t">>), Text(<<"D","r","/","C","r">>),
      Text(<<"S","a","l","e","s"," ","T","a","g">>)>>
CreditRow ==
    <<Date(10), Text(<<"r","c","p","t">>), Num(50000000), Text(<<"C">>), Text(CA04_402)>>

StandardLedgerRows == <<LabelRow, TxnHeaderRow, CreditRow>>

\* Header: the registry sheet has up to MaxAmountColumns amount columns, each
\* under one of four headers
MaxAmountColumns == 3
AmountReceived == <<"A","m","o","u","n","t"," ","R","e","c","e","i","v","e","d">>
AmountHeaders ==
    {Text(AmountReceivedIncTaxes), Text(AmountReceivedExlTaxes), Text(TaxesReceived),
     Text(AmountReceived)}
AmountCells(n) == [k \in 1..n |-> Num(k * 10000000)]

InitHeader ==
    /\ workbook \in
          {<<Sheet(AnnexSalesMaster, RegistryRows(hs, AmountCells(Len(hs)))),
             Sheet(MainCollectionAC, StandardLedgerRows)>> :
              hs \in SeqsUpTo(AmountHeaders, MaxAmountColumns)}
    /\ FreshWorkbookSession

SpecHeader == InitHeader /\ [][NextWorkbook]_vars

\* Phases: the ledger sheet has up to MaxLedgerSheetRows rows, each a label
\* row, a double label row, a header row or a credit
MaxLedgerSheetRows == 5
LedgerSheetRows == {LabelRow, DoubleLabelRow, TxnHeaderRow, CreditRow}

InitPhases ==
    /\ workbook \in
          {<<Sheet(AnnexSalesMaster, StandardRegistryRows),
             Sheet(MainCollectionAC, rows)>> :
              rows \in SeqsUpTo(LedgerSheetRows, MaxLedgerSheetRows)}
    /\ FreshWorkbookSession

SpecPhases == InitPhases /\ [][NextWorkbook]_vars

\* Sections: the ledger sheet has up to MaxSectionRows rows, each a label row
\* with the account number in column B or in column C, a header row or a
\* credit
MaxSectionRows == 5
LabelRowNumberInC == <<Text(PhaseOne), Null, Num(1234567890), Null, Null>>
SectionRows == {LabelRow, LabelRowNumberInC, TxnHeaderRow, CreditRow}

InitSections ==
    /\ workbook \in
          {<<Sheet(AnnexSalesMaster, StandardRegistryRows),
             Sheet(MainCollectionAC, rows)>> :
              rows \in SeqsUpTo(SectionRows, MaxSectionRows)}
    /\ FreshWorkbookSession

SpecSections == InitSections /\ [][NextWorkbook]_vars

\* Locate: up to MaxSheets sheets with different names; a sheet is a registry
\* or a ledger under its usual name, under a similar name or under a name
\* that says nothing, or a sheet of notes
MaxSheets == 3
LocateSheets ==
    {Sheet(AnnexSalesMaster, StandardRegistryRows),
     Sheet(<<"S","a","l","e","s"," ","A","n","n","e","x"," ","2">>, StandardRegistryRows),
     Sheet(<<"U","n","i","t","s">>, StandardRegistryRows),
     Sheet(MainCollectionAC, StandardLedgerRows),
     Sheet(<<"M","a","i","n"," ","C","o","l","l","e","c","t","i","o","n"," ","N","e","w">>, StandardLedgerRows),
     Sheet(<<"B","a","n","k">>, StandardLedgerRows),
     Sheet(<<"N","o","t","e","s">>, <<<<Text(<<"t","o","d","o">>)>>>>)}

InitLocate ==
    /\ workbook \in
          {wb \in SeqsUpTo(LocateSheets, MaxSheets) :
              \A i, j \in 1..Len(wb) : wb[i].name = wb[j].name => i = j}
    /\ FreshWorkbookSession

SpecLocate == InitLocate /\ [][NextWorkbook]_vars

\* Rerun: the workbooks of Header and Locate, each run up to MaxRuns times
InitRerun == InitHeader \/ InitLocate

SpecRerun == InitRerun /\ [][NextRerun]_vars

----------------------------------------------------------------------------
(* Claims about the Header Mapper and the Phase Segmenter                  *)

RegistryParsed == pc \in {"registry", "accounts", "ledger", "verified", "failed", "done"}

\* the header row of the registry sheet of a Header workbook
HeaderValues == SheetNamed(workbook, AnnexSalesMaster).rows[1]

\* C13: the headers 'Amount received (Inc Taxes)', 'Amount received ( Exl
\* Taxes)' and 'Taxes Received' are mapped each to its own field, and the
\* registry table has the inc-tax cell of a row as its expected amount.
C13_AmountHeadersMapped ==
    RegistryParsed =>
        /\ \A idx \in DOMAIN column_mapping(HeaderValues) :
              HeaderValues[idx] \in {Text(AmountReceivedIncTaxes),
                                     Text(AmountReceivedExlTaxes),
                                     Text(TaxesReceived)}
                  => column_mapping(HeaderValues)[idx] = HeaderValues[idx]
        /\ \A idx \in 1..Len(HeaderValues) :
              (/\ HeaderValues[idx] = Text(AmountReceivedIncTaxes)
               /\ \A later \in (idx + 1)..Len(HeaderValues) :
                     HeaderValues[later] # Text(AmountReceivedIncTaxes))
                  => sales_master_df[1].expected
                        = SheetNamed(workbook, AnnexSalesMaster).rows[2][idx]

AccountsIdentified == pc \in {"accounts", "ledger", "verified", "failed", "done"}

----------------------------------------------------------------------------
(* Claims about the Sheet Locator and about the run as a whole             *)

SheetsIdentified == pc # "workbook"

SalesMasterSignal(sheet) ==
    SalesMasterExact(sheet) \/ SalesMasterSimilar(sheet) \/ SalesMasterColumns(sheet)
CollectionSignal(sheet) ==
    CollectionExact(sheet) \/ CollectionSimilar(sheet) \/ CollectionPhaseHeaders(sheet)

NoSalesMasterSheet == \A i \in 1..Len(workbook) : ~SalesMasterSignal(workbook[i])
NoCollectionSheet == \A i \in 1..Len(workbook) : ~CollectionSignal(workbook[i])

\* C18: for the registry and for the ledger, the locator returns no name when
\* no sheet passes one of the three signals, and a name it returns is the
\* name of a sheet that passes one.
C18_LocatorNeverGuesses ==
    SheetsIdentified =>
        /\ NoSalesMasterSheet => sheet_names.sales_master = Null
        /\ NoCollectionSheet => sheet_names.collection = Null
        /\ sheet_names.sales_master # Null =>
              SalesMasterSignal(SheetNamed(workbook, sheet_names.sales_master.s))
        /\ sheet_names.collection # Null =>
              CollectionSignal(SheetNamed(workbook, sheet_names.collection.s))

\* nothing of the session has been written
NothingStored ==
    /\ sales_master_df = None
    /\ accounts_info = None
    /\ collection_df = None
    /\ verification_results = <<>>
    /\ dashboard_data = <<>>

\* C19: in a run over a workbook without a registry sheet or without a
\* ledger sheet the handler stops at the locator with its error, and nothing
\* of the session is written.
C19_NotFoundIsFatal ==
    (run = 1 /\ SheetsIdentified /\ (NoSalesMasterSheet \/ NoCollectionSheet)) =>
        pc = "not_found" /\ NothingStored

RunEnded == pc \in {"done", "failed", "not_found"}

----------------------------------------------------------------------------
(* Order of the matched transactions                                       *)

\* C21: in every verification result the matched transactions are ordered by
\* date ascending, whatever the order of the ledger rows and whichever tier
\* matched them
C21_MatchedOrderedByDate ==
    pc = "verified" =>
        \A r \in Results :
            \A i, j \in 1..Len(r.transactions) :
                (/\ i < j
                 /\ r.transactions[i].date.kind = "date"
                 /\ r.transactions[j].date.kind = "date")
                => r.transactions[i].date.d <= r.transactions[j].date.d

----------------------------------------------------------------------------
(* Claims about the rows of a phase                                        *)

\* the ledger sheet of a Phases workbook
LedgerSheet == SheetNamed(workbook, MainCollectionAC)

PhaseLabelMatches ==
    {rc \in (1..max_row(LedgerSheet)) \X (1..3) : IsPhaseCell(LedgerSheet, rc[1], rc[2])}

\* C23: a label without an account number or without a header row still
\* yields an account, with number None when the number is missing: there are
\* as many accounts as phase-label matches.
C23_EveryLabelYieldsPhase ==
    AccountsIdentified =>
        /\ Len(accounts_info) = Cardinality(PhaseLabelMatches)
        /\ \A i \in 1..Len(accounts_info) :
              (\A c \in 1..3 :
                  AccountNumberNear(LedgerSheet, accounts_info[i].start_row, c) = Null)
                  => accounts_info[i].number = Null

LedgerParsed == pc \in {"ledger", "verified", "failed", "done"}

\* the sheet rows of the transactions extracted for an account
RowsReadFor(account) ==
    LET txns == TransactionsOfAccount(LedgerSheet, account)
    IN  {txns[k].row : k \in 1..Len(txns)}

----------------------------------------------------------------------------
(* Claims about the tiers of the Matcher                                   *)

\* sub occurs in s with no digit directly before it and none directly after it
OccursAsCompleteRun(s, sub) ==
    \E i \in 1..(Len(s) - Len(sub) + 1) :
        /\ SubSeq(s, i, i + Len(sub) - 1) = sub
        /\ i > 1 => s[i - 1] \notin Digits
        /\ i + Len(sub) <= Len(s) => s[i + Len(sub)] \notin Digits

\* the transactions that the prefix-stripped tier adds for unit CA04-402
PrefixTierAdds ==
    LET df     == WithNormalizedTags(collection_df)
        direct == DirectMatches(df, CA04_402)
        both   == PrefixMatches(df, CA04_402, direct)
    IN  SubSeq(both, Len(direct) + 1, Len(both))

\* C25: the prefix-stripped tier adds a transaction to unit CA04-402 only if
\* 04-402 occurs in its tag as a complete digit run; the tags CA104-402 and
\* 04-4021 are not matched by it.
C25_PrefixTierGuarded ==
    pc = "verified" =>
        \A k \in 1..Len(PrefixTierAdds) :
            OccursAsCompleteRun(PrefixTierAdds[k].normalized_sales_tag.s,
                                <<"0","4","-","4","0","2">>)

----------------------------------------------------------------------------
(* Claim about the shapes that get a hyphen                                *)

\* the unit number of the registry row, trimmed, upper-cased, without spaces
CleanedUnit == RemoveSpaces(Upper(Strip(Str(registry_rows[1].unit))))

\* CA followed by exactly n digits, without a hyphen
IsCAWithDigits(s, n) ==
    /\ Len(s) = 2 + n
    /\ StartsWith(s, <<"C","A">>)
    /\ IsDigit(SubSeq(s, 3, Len(s)))

\* C26: a hyphen is inserted only into CA followed by exactly 6 digits, after
\* the 2-digit tower, and into CA followed by exactly 4 digits, after the
\* 1-digit tower; an identifier of any other shape is returned without an
\* inserted hyphen.
C26_HyphenOnlyInDocumentedShapes ==
    pc # "uploaded" =>
        sales_master_df[1].normalized =
            IF IsCAWithDigits(CleanedUnit, 6)
            THEN SubSeq(CleanedUnit, 1, 4) \o <<"-">> \o SubSeq(CleanedUnit, 5, 8)
            ELSE IF IsCAWithDigits(CleanedUnit, 4)
            THEN SubSeq(CleanedUnit, 1, 3) \o <<"-">> \o SubSeq(CleanedUnit, 4, 6)
            ELSE CleanedUnit

----------------------------------------------------------------------------
(* Claim about a ledger row without its Dr/Cr value                        *)

\* a ledger whose Dr/Cr cell is empty in one row and filled in another
SomeDirectionsEmpty ==
    /\ \E i \in 1..Len(ledger_rows) : ledger_rows[i].type = Null
    /\ \E i \in 1..Len(ledger_rows) : ledger_rows[i].type # Null

\* C27: a row with date and amount whose Dr/Cr cell is empty, in a ledger
\* that has the cell filled in other rows, does not make verify_transactions
\* raise: the run ends with a result for every unit.
C27_EmptyDirectionNotFatal ==
    (pc \in {"verified", "failed"} /\ SomeDirectionsEmpty) =>
        /\ pc = "verified"
        /\ \A i \in UnitRows(sales_master_df) :
              sales_master_df[i].unit.s \in DOMAIN verification_results

----------------------------------------------------------------------------
(* Claim about transactions with the same tag                              *)

\* the transactions of the ledger table that are in the matched list of a unit
MatchedRows(u) ==
    {unit_transactions_map[u][k].row : k \in 1..Len(unit_transactions_map[u])}

----------------------------------------------------------------------------
(* A session with several uploaded workbooks                               *)

\* the number of workbooks uploaded in one session
MaxUploads == 3

\* the script runs again with another uploaded file: the session state stays,
\* the workbook is loaded from the new file
UploadWorkbook(wb) ==
    /\ pc \in {"done", "failed", "not_found"}
    /\ run < MaxUploads
    /\ run' = run + 1
    /\ previous_results' = verification_results
    /\ workbook' = wb
    /\ pc' = "workbook"
    /\ UNCHANGED <<registry_rows, ledger_rows, sheet_names, sales_master_df,
                   accounts_info, collection_df, unit_transactions_map,
                   verification_results, dashboard_data, preview_data>>

\* a registry sheet with one row for the unit
RegistryRowsOf(unit) ==
    <<<<Text(SrNo), Text(NameOfCustomer), Text(UnitNumber)>>,
      <<Num(1), CustomerName, Text(unit)>>>>

\* a credit of the unit with the given Dr/Cr cell
CreditRowOf(unit, type) ==
    <<Date(10), Text(<<"r","c","p","t">>), Num(50000000), type, Text(unit)>>

\* Session: workbooks whose run ends normally (units CA04-402 and CA14-402),
\* with an exception in verify_transactions (one Dr/Cr cell empty), without
\* a header row in the registry sheet, and without a ledger sheet
SessionWorkbooks ==
    {<<Sheet(AnnexSalesMaster, RegistryRowsOf(CA04_402)),
       Sheet(MainCollectionAC,
             <<LabelRow, TxnHeaderRow, CreditRowOf(CA04_402, Text(<<"C">>))>>)>>,
     <<Sheet(AnnexSalesMaster, RegistryRowsOf(CA14_402)),
       Sheet(MainCollectionAC,
             <<LabelRow, TxnHeaderRow, CreditRowOf(CA14_402, Text(<<"C">>))>>)>>,
     <<Sheet(AnnexSalesMaster, RegistryRowsOf(CA14_402)),
       Sheet(MainCollectionAC,
             <<LabelRow, TxnHeaderRow, CreditRowOf(CA14_402, Null),
               CreditRowOf(CA14_402, Text(<<"C">>))>>)>>,
     <<Sheet(AnnexSalesMaster, <<<<Text(<<"t","o","d","o">>)>>>>),
       Sheet(MainCollectionAC,
             <<LabelRow, TxnHeaderRow, CreditRowOf(CA04_402, Text(<<"C">>))>>)>>,
     <<Sheet(AnnexSalesMaster, RegistryRowsOf(CA04_402))>>}

InitSession ==
    /\ workbook \in SessionWorkbooks
    /\ FreshWorkbookSession

NextSession ==
    \/ NextWorkbook
    \/ \E wb \in SessionWorkbooks : UploadWorkbook(wb)

SpecSession == InitSession /\ [][NextSession]_vars

\* C29: after any sequence of runs the stored verification results and
\* dashboard data are those computed from the stored registry table and
\* transaction table; a failed run leaves no table of the new workbook next
\* to the results of an earlier one.
C29_SessionConsistent ==
    RunEnded =>
        /\ verification_results # <<>> =>
              LET map == match_transactions_to_units(sales_master_df, collection_df)
              IN  /\ ~VerifyRaises(sales_master_df, collection_df, map)
                  /\ verification_results
                        = verify_transactions(sales_master_df, collection_df, map)
        /\ dashboard_data # <<>> =>
              /\ sales_master_df # None
              /\ dashboard_data
                    = calculate_dashboard_data(sales_master_df, verification_results)

----------------------------------------------------------------------------
(* Cost sheet data: generate_cost_sheet_data and its callers                *)

\* a verification result as the dictionary it is, its keys being texts; the
\* keys 'expected_base_amount' and 'expected_tax_amount' belong to columns
\* that the registry table of the model does not carry
ResultDict(r) ==
       (<<"u","n","i","t","_","n","u","m","b","e","r">>
           :> r.unit_number)
    @@ (<<"c","u","s","t","o","m","e","r","_","n","a","m","e">>
           :> r.customer_name)
    @@ (<<"e","x","p","e","c","t","e","d","_","a","m","o","u","n","t">>
           :> r.expected_amount)
    @@ (<<"a","c","t","u","a","l","_","a","m","o","u","n","t">>
           :> r.actual_amount)
    @@ (<<"a","m","o","u","n","t","_","m","a","t","c","h">>
           :> r.amount_match)
    @@ (<<"t","o","t","a","l","_","c","r","e","d","i","t","s">>
           :> r.total_credits)
    @@ (<<"t","o","t","a","l","_","d","e","b","i","t","s">>
           :> r.total_debits)
    @@ (<<"t","r","a","n","s","a","c","t","i","o","n","_","c","o","u","n","t">>
           :> r.transaction_count)
    @@ (<<"b","o","u","n","c","e","d","_","t","r","a","n","s","a","c","t","i","o","n","s">>
           :> r.bounced_transactions)
    @@ (<<"h","a","s","_","b","o","u","n","c","e","d">>
           :> r.has_bounced)
    @@ (<<"s","t","a","t","u","s">>
           :> r.status)
    @@ (<<"t","r","a","n","s","a","c","t","i","o","n","s">>
           :> r.transactions)

\* d.get(key, default)
Get(d, key, default) == IF key \in DOMAIN d THEN d[key] ELSE default

\* x's sort key is less than y's: "x.get('date', pd.NaT) or pd.NaT", every
\* comparison with NaT being False
DateBefore(x, y) ==
    x.date.kind = "date" /\ y.date.kind = "date" /\ x.date.d < y.date.d

RECURSIVE InsertByDate(_, _)
InsertByDate(t, txns) ==
    IF txns = <<>> THEN <<t>>
    ELSE IF DateBefore(t, Head(txns)) THEN <<t>> \o txns
    ELSE <<Head(txns)>> \o InsertByDate(t, Tail(txns))

\* sorted(transactions, key=...): stable, ascending by date
RECURSIVE SortedByDate(_)
SortedByDate(txns) ==
    IF txns = <<>> THEN <<>>
    ELSE InsertByDate(txns[Len(txns)], SortedByDate(SubSeq(txns, 1, Len(txns) - 1)))

\* generate_cost_sheet_data, reduced to the payment fields that come from the
\* verification: None for a row without unit number
generate_cost_sheet_data(customer_info, verification_info) ==
    IF ~Truthy(customer_info.unit) THEN None
    ELSE LET unit_number  == Upper(Strip(Str(customer_info.unit)))
             verification == Get(verification_info, unit_number, <<>>)
         IN  [unit_number    |-> unit_number,
              customer_name  |-> customer_info.name,
              total_received |-> Get(verification,
                                     <<"e","x","p","e","c","t","e","d","_","a","m","o","u","n","t">>, 0),
              transactions   |-> SortedByDate(
                                     Get(verification, <<"t","r","a","n","s","a","c","t","i","o","n","s">>, <<>>))]

\* sales_master_df[sales_master_df['Unit Number'] == unit_no].iloc[0]
FirstRowOf(sm_df, unit_no) ==
    sm_df[Minimum({i \in 1..Len(sm_df) : sm_df[i].unit = Text(unit_no)})]

\* the Customers tab with some of the listed units selected: for each of them
\* the cost sheet data of its registry row and its own verification result
GenerateCostSheets ==
    /\ pc = "verified"
    /\ sales_master_df # None /\ verification_results # <<>>
    /\ \E selected_customers \in (SUBSET DOMAIN verification_results) \ {{}} :
          preview_data' =
              [unit_no \in selected_customers |->
                  generate_cost_sheet_data(
                      FirstRowOf(sales_master_df, unit_no),
                      ResultDict(verification_results[unit_no]))]
    /\ pc' = "previewed"
    /\ UNCHANGED <<inputs, history, sheet_names, sales_master_df,
                   accounts_info, collection_df, unit_transactions_map,
                   verification_results, dashboard_data>>

NextCostSheet == Next \/ GenerateCostSheets

\* CostSheet: the workbooks of Status, with the Customers tab after the run
SpecCostSheet == InitStatus /\ [][NextCostSheet]_vars

\* C30: the cost sheet data of a selected unit holds that unit's matched
\* transactions sorted by date, and its total_received is the expected amount
\* of the unit's result (amount_received and gst_received likewise, for the
\* base and tax amounts).
C30_CostSheetFromResult ==
    pc = "previewed" =>
        \A unit_no \in DOMAIN preview_data :
            /\ preview_data[unit_no].transactions
                  = SortedByDate(verification_results[unit_no].transactions)
            /\ preview_data[unit_no].total_received
                  = verification_results[unit_no].expected_amount

====
